---------------------------- MODULE Spec2Model ----------------------------
(***************************************************************************)
(* Model of append_price_history.py: the time-bucketed upsert of one price *)
(* history row per open trade into a paged, filterable record store.       *)
(*                                                                         *)
(* Strings are sequences of one-character strings, so that strip(),        *)
(* upper(), "".join() and strftime() are computed and not assumed.         *)
(***************************************************************************)
EXTENDS Integers, Sequences, FiniteSets, TLC

VARIABLES
    store,      \* the History database: sequence of rows, a row's id is its index
    trading_log, \* the pages of the Trading Log whose Status is Open, in query order
    clock,      \* the last wall-clock time handed out by datetime.now(TZ)
    runs,       \* number of invocations of main() started so far
    proc,       \* per process: the locals of main() and its position
    prev,       \* the run that preceded the current one (pc, trades, key, rows)
    started_empty, \* whether the History database was empty at the beginning
    bk          \* the Bucketer exercised alone: inputs and results

vars == <<store, trading_log, clock, runs, proc, prev, started_empty, bk>>

---------------------------------------------------------------------------
(* Bounds of the model *)

MaxTrades == 2          \* length of the list of open trades
MaxRuns == 2            \* invocations of main() in one behaviour
MaxBucketMinutes == 12  \* bucket sizes 1..MaxBucketMinutes are enumerated
PageSize == 1           \* rows per page returned by the store

(* Program constants *)

BUCKET_MINUTES == 10

None == -1              \* Python's None where a number is expected: no price is negative here
CursorNone == 0         \* Python's None for a cursor: falsy, like every absent cursor

---------------------------------------------------------------------------
(* str.strip(), str.upper(), "".join() *)

Whitespace == {" "}

RECURSIVE LStrip(_)
LStrip(s) == IF s # <<>> /\ Head(s) \in Whitespace THEN LStrip(Tail(s)) ELSE s

RECURSIVE RStrip(_)
RStrip(s) ==
    IF s # <<>> /\ s[Len(s)] \in Whitespace THEN RStrip(SubSeq(s, 1, Len(s) - 1)) ELSE s

Strip(s) == RStrip(LStrip(s))

UpperChar(c) == CASE c = "a" -> "A" [] c = "b" -> "B" [] OTHER -> c

Upper(s) == [i \in 1..Len(s) |-> UpperChar(s[i])]

RECURSIVE Join(_)
Join(frags) ==
    IF frags = <<>> THEN <<>> ELSE Head(frags).plain_text \o Join(Tail(frags))

---------------------------------------------------------------------------
(* datetime: floor_to_bucket and strftime("%Y-%m-%d %H:%M") *)

Digits == <<"0", "1", "2", "3", "4", "5", "6", "7", "8", "9">>

Pad2(n) == <<Digits[((n \div 10) % 10) + 1], Digits[(n % 10) + 1]>>

Pad4(n) == Pad2(n \div 100) \o Pad2(n % 100)

DateTime(d, h, mi, s, us) ==
    [year |-> 2024, month |-> 1, day |-> d, hour |-> h, minute |-> mi,
     second |-> s, microsecond |-> us]

(* Faulty variant: the minute is floored, second and microsecond are kept. *)
floor_to_bucket_keep_seconds(dt, minutes) ==
    [dt EXCEPT !.minute = (dt.minute \div minutes) * minutes]

floor_to_bucket(dt, minutes) ==
    LET m == (dt.minute \div minutes) * minutes
    IN  [dt EXCEPT !.minute = m, !.second = 0, !.microsecond = 0]

strftime(dt) ==
    Pad4(dt.year) \o <<"-">> \o Pad2(dt.month) \o <<"-">> \o Pad2(dt.day)
        \o <<" ">> \o Pad2(dt.hour) \o <<":">> \o Pad2(dt.minute)

(* Whole seconds since the start of the month, for comparing datetimes. *)
Secs(dt) == (((dt.day * 24 + dt.hour) * 60) + dt.minute) * 60 + dt.second

TimeLeq(a, b) ==
    \/ Secs(a) < Secs(b)
    \/ Secs(a) = Secs(b) /\ a.microsecond <= b.microsecond

(* t < b + minutes, for a b whose microsecond is zero or not *)
TimeBeforeEnd(t, b, minutes) ==
    \/ Secs(t) < Secs(b) + 60 * minutes
    \/ Secs(t) = Secs(b) + 60 * minutes /\ t.microsecond < b.microsecond

InWindow(t, b, minutes) == TimeLeq(b, t) /\ TimeBeforeEnd(t, b, minutes)

---------------------------------------------------------------------------
(* Notion pages and their properties *)

TitleProp(frags) ==
    [type |-> "title", title |-> [i \in 1..Len(frags) |-> [plain_text |-> frags[i]]]]

RichTextProp(frags) ==
    [type |-> "rich_text",
     rich_text |-> [i \in 1..Len(frags) |-> [plain_text |-> frags[i]]]]

NumberProp(n) == [type |-> "number", number |-> n]

get_title(page, prop_name) ==
    IF prop_name \notin DOMAIN page.properties THEN <<>>
    ELSE LET prop == page.properties[prop_name]
         IN  IF prop.type = "title" THEN Join(prop.title) ELSE <<>>

get_rich_text(page, prop_name) ==
    IF prop_name \notin DOMAIN page.properties THEN <<>>
    ELSE LET prop == page.properties[prop_name]
         IN  IF prop.type = "rich_text" THEN Join(prop.rich_text) ELSE <<>>

get_number(page, prop_name) ==
    IF prop_name \notin DOMAIN page.properties THEN None
    ELSE LET prop == page.properties[prop_name]
         IN  IF prop.type # "number" THEN None ELSE prop.number

(* Faulty variant: trimmed, case kept. *)
NormalizeNoUpper(title) == Strip(title)

(* ticker = get_title(row, ...).strip().upper() *)
Normalize(title) == Upper(Strip(title))

(* Faulty variant: a trade with no price is not skipped. *)
SkippableTickerOnly(ticker, price) == ticker = <<>>

(* if not ticker or price is None *)
Skippable(ticker, price) == ticker = <<>> \/ price = None

(* Faulty variant: the key written is cut to the hour, "YYYY-MM-DD HH". *)
HistoryPropsHourOnly(ticker, stock_page_id, bucket_time, time_key, price) ==
    [Ticker |-> TitleProp(<<ticker>>),
     Stock |-> [type |-> "relation", relation |-> <<stock_page_id>>],
     Time |-> [type |-> "date", start |-> bucket_time],
     HourKey |-> RichTextProp(<<SubSeq(time_key, 1, 13)>>),
     Price |-> NumberProp(price),
     PointType |-> [type |-> "select", name |-> "10min"]]

(* The property set main() writes for one trade. *)
HistoryProps(ticker, stock_page_id, bucket_time, time_key, price) ==
    [Ticker |-> TitleProp(<<ticker>>),
     Stock |-> [type |-> "relation", relation |-> <<stock_page_id>>],
     Time |-> [type |-> "date", start |-> bucket_time],
     HourKey |-> RichTextProp(<<time_key>>),
     Price |-> NumberProp(price),
     PointType |-> [type |-> "select", name |-> "10min"]]

(* Map ticker -> existing history page id; a later row replaces an earlier one. *)
RECURSIVE BuildMap(_, _)
BuildMap(rows, m) ==
    IF rows = <<>> THEN m
    ELSE LET t == Normalize(get_title(Head(rows), "Ticker"))
         IN  BuildMap(Tail(rows),
                      IF t # <<>> THEN (t :> Head(rows).id) @@ m ELSE m)

(* Faulty variant: the map is keyed by the trimmed title, case kept. *)
RECURSIVE BuildMapNoUpper(_, _)
BuildMapNoUpper(rows, m) ==
    IF rows = <<>> THEN m
    ELSE LET t == NormalizeNoUpper(get_title(Head(rows), "Ticker"))
         IN  BuildMapNoUpper(Tail(rows),
                      IF t # <<>> THEN (t :> Head(rows).id) @@ m ELSE m)

EmptyMap == [t \in {} |-> 0]

ExistingMapNoUpper(existing_rows) == BuildMapNoUpper(existing_rows, EmptyMap)

ExistingMap(existing_rows) == BuildMap(existing_rows, EmptyMap)

---------------------------------------------------------------------------
(* The store behind db_query: filtering and paging *)

RECURSIVE SelectSeq2(_, _)
SelectSeq2(s, key) ==
    IF s = <<>> THEN <<>>
    ELSE IF get_rich_text(Head(s), "HourKey") = key
         THEN <<Head(s)>> \o SelectSeq2(Tail(s), key)
         ELSE SelectSeq2(Tail(s), key)

(* Faulty variant: the pre-read is not filtered by HourKey. *)
HistoryFilterAll(rows, time_key) == rows

(* rows the filter {"property": HourKey, "rich_text": {"equals": time_key}} keeps *)
HistoryFilter(rows, time_key) == SelectSeq2(rows, time_key)

(* Faulty variant: the cursor is never sent. *)
QueryBodyNoCursor(payload, cursor) == payload

(* body = dict(payload); if cursor: body["start_cursor"] = cursor *)
QueryBody(payload, cursor) ==
    IF cursor # CursorNone THEN [start_cursor |-> cursor] @@ payload ELSE payload

Min(a, b) == IF a <= b THEN a ELSE b

(* One page of `matching`: the response of db_query to `body`. *)
Respond(matching, body) ==
    LET first == IF "start_cursor" \in DOMAIN body THEN body.start_cursor ELSE 1
        last == Min(first + PageSize - 1, Len(matching))
        more == last < Len(matching)
    IN  [results |-> SubSeq(matching, first, last),
         has_more |-> more,
         next_cursor |-> IF more THEN last + 1 ELSE CursorNone]

---------------------------------------------------------------------------
(* Inputs: what the Trading Log, the clock and the History database may hold *)

TradePage(id, ticker_prop, close_prop) ==
    [id |-> id, properties |-> ("Ticker" :> ticker_prop) @@ ("Close" :> close_prop)]

TradePages ==
    { TradePage("t1", TitleProp(<< <<" ", "a">>, <<" ">> >>), NumberProp(1)),
      TradePage("t2", TitleProp(<< <<"A">> >>), NumberProp(2)),
      TradePage("t3", TitleProp(<< <<"b">> >>), NumberProp(0)),
      TradePage("t4", TitleProp(<< <<" ">> >>), NumberProp(1)),
      TradePage("t5", TitleProp(<< <<"a">> >>), NumberProp(None)) }

(* lists of distinct pages, as one query of the Trading Log returns them *)
RECURSIVE ListsUpTo(_)
ListsUpTo(n) ==
    IF n = 0 THEN {<<>>}
    ELSE LET shorter == ListsUpTo(n - 1)
         IN  shorter \cup
             { Append(l, t) : l \in {x \in shorter : Len(x) = n - 1},
                              t \in TradePages }

Distinct(l) == \A i, j \in 1..Len(l) : i # j => l[i].id # l[j].id

TradeLists == { l \in ListsUpTo(MaxTrades) : Distinct(l) }

NowTimes ==
    { DateTime(1, 9, 47, 12, 0), DateTime(1, 9, 50, 0, 0) }

HistoryRow(id, title_frags, dt, price) ==
    [id |-> id,
     properties |-> [Ticker |-> TitleProp(title_frags),
                     Stock |-> [type |-> "relation", relation |-> <<"t0">>],
                     Time |-> [type |-> "date", start |-> dt],
                     HourKey |-> RichTextProp(<<strftime(dt)>>),
                     Price |-> NumberProp(price),
                     PointType |-> [type |-> "select", name |-> "10min"]]]

T0930 == DateTime(1, 9, 30, 0, 0)
T0940 == DateTime(1, 9, 40, 0, 0)

(* History databases a run may find: empty, or holding rows entered by hand *)
InitStores ==
    { <<>>,
      << HistoryRow(1, << <<"A">> >>, T0940, 5),
         HistoryRow(2, << <<" ", "a", " ">> >>, T0940, 6) >>,
      << HistoryRow(1, << <<"A">> >>, T0930, 5),
         HistoryRow(2, << <<"b">>, <<" ">> >>, T0940, 6) >> }

---------------------------------------------------------------------------
(* Processes: each runs main() from start to end, again and again *)

Procs == {1, 2}

Calls == {"primary", "fallback", "history"}

IdleProc ==
    [pc |-> "idle", bucket_time |-> T0930, time_key |-> <<>>,
     cursor |-> CursorNone, results |-> <<>>, trades |-> <<>>,
     existing_rows |-> <<>>, existing_map |-> EmptyMap, i |-> 0,
     created |-> 0, updated |-> 0, skipped |-> 0, out |-> <<>>,
     reqs |-> [c \in Calls |-> <<>>], attempts |-> [c \in Calls |-> 0],
     writes |-> <<>>, base |-> <<>>]

BucketOff == [pc |-> "off"]

Init ==
    /\ store \in InitStores
    /\ started_empty = (store = <<>>)
    /\ trading_log \in TradeLists
    /\ clock = DateTime(1, 9, 47, 12, 0)
    /\ runs = 0
    /\ proc = [p \in Procs |-> IdleProc]
    /\ prev = [pc |-> "idle", trades |-> <<>>, time_key |-> <<>>, rows |-> 0]
    /\ bk = BucketOff

(* main(), lines 145-149, up to the first request of query_open_trades *)
Begin(p, now_local) ==
    LET bucket_time == floor_to_bucket(now_local, BUCKET_MINUTES)
        time_key == strftime(bucket_time)
    IN  /\ proc' = [proc EXCEPT ![p] =
                      [IdleProc EXCEPT !.pc = "primary",
                                       !.bucket_time = bucket_time,
                                       !.time_key = time_key,
                                       !.out = << <<"bucket", time_key>> >>,
                                       !.attempts = [@ EXCEPT !["primary"] = 1],
                                       !.base = store]]
        /\ prev' = [pc |-> proc[p].pc, trades |-> proc[p].trades,
                    time_key |-> proc[p].time_key, rows |-> Len(store)]
        /\ clock' = now_local
        /\ runs' = runs + 1
        /\ UNCHANGED <<store, trading_log, started_empty, bk>>

Start(p) ==
    /\ proc[p].pc \in {"idle", "done", "failed"}
    /\ runs < MaxRuns
    /\ \E now_local \in NowTimes :
          /\ TimeLeq(clock, now_local)
          /\ Begin(p, now_local)

Payload(call, time_key) ==
    CASE call = "primary" ->
            [filter |-> [property |-> "Status", status |-> [equals |-> "Open"]]]
      [] call = "fallback" ->
            [filter |-> [property |-> "Status", select |-> [equals |-> "Open"]]]
      [] call = "history" ->
            [filter |-> [property |-> "HourKey", rich_text |-> [equals |-> time_key]]]

(* what the queried database holds for the body's filter *)
Matching(p, body) ==
    IF body.filter.property = "HourKey"
    THEN HistoryFilter(store, body.filter.rich_text.equals)
    ELSE trading_log

(* the state of main() once query_open_trades has returned `trades` *)
AfterTrades(r, trades) ==
    [r EXCEPT !.pc = "history", !.trades = trades,
              !.out = Append(@, <<"open trades", Len(trades)>>),
              !.cursor = CursorNone, !.results = <<>>,
              !.attempts = [@ EXCEPT !["history"] = 1]]

(* the state of main() once the history query has returned `existing_rows` *)
AfterHistory(r, existing_rows) ==
    [r EXCEPT !.pc = "loop", !.existing_rows = existing_rows,
              !.existing_map = ExistingMap(existing_rows),
              !.created = 0, !.updated = 0, !.skipped = 0, !.i = 1,
              !.cursor = CursorNone, !.results = <<>>]

(* db_query_all: one request answered with a page *)
QueryPage(p) ==
    /\ proc[p].pc \in Calls
    /\ LET r == proc[p]
           call == r.pc
           body == QueryBody(Payload(call, r.time_key), r.cursor)
           data == Respond(Matching(p, body), body)
           results == r.results \o data.results
           logged == [r EXCEPT !.reqs = [@ EXCEPT ![call] =
                                   Append(@, [body |-> body, data |-> data])]]
       IN  proc' = [proc EXCEPT ![p] =
             IF data.has_more
             THEN [logged EXCEPT !.results = results, !.cursor = data.next_cursor]
             ELSE IF call = "history" THEN AfterHistory(logged, results)
                  ELSE AfterTrades(logged, results)]
    /\ UNCHANGED <<store, trading_log, clock, runs, prev, started_empty, bk>>

(* Faulty variant: any failed trades query is retried with the fallback filter. *)
QueryFailRetry(p) ==
    /\ proc[p].pc \in {"primary", "fallback"}
    /\ proc' = [proc EXCEPT ![p] =
          [@ EXCEPT !.pc = "fallback", !.cursor = CursorNone, !.results = <<>>,
                    !.attempts = [@ EXCEPT !["fallback"] = @ + 1]]]
    /\ UNCHANGED <<store, trading_log, clock, runs, prev, started_empty, bk>>

(* a request of the primary query raises: query_open_trades falls back *)
PrimaryFail(p) ==
    /\ proc[p].pc = "primary"
    /\ proc' = [proc EXCEPT ![p] =
          [@ EXCEPT !.pc = "fallback", !.cursor = CursorNone, !.results = <<>>,
                    !.attempts = [@ EXCEPT !["fallback"] = @ + 1]]]
    /\ UNCHANGED <<store, trading_log, clock, runs, prev, started_empty, bk>>

(* a request of the fallback or of the history query raises: main() ends *)
QueryAbort(p) ==
    /\ proc[p].pc \in {"fallback", "history"}
    /\ proc' = [proc EXCEPT ![p] = [@ EXCEPT !.pc = "failed"]]
    /\ UNCHANGED <<store, trading_log, clock, runs, prev, started_empty, bk>>

---------------------------------------------------------------------------
(* The reconcile loop, lines 175-201: one action per trade *)

Ticker(r) == Normalize(get_title(r.trades[r.i], "Ticker"))

Price(r) == get_number(r.trades[r.i], "Close")

InLoop(p) == proc[p].pc = "loop" /\ proc[p].i <= Len(proc[p].trades)

Props(r) ==
    HistoryProps(Ticker(r), r.trades[r.i].id, r.bucket_time, r.time_key, Price(r))

WriteCall(r, op, target, ok) ==
    [op |-> op, target |-> target, trade |-> r.i, ticker |-> Ticker(r),
     props |-> Props(r), ok |-> ok]

Skip(p) ==
    /\ InLoop(p)
    /\ Skippable(Ticker(proc[p]), Price(proc[p]))
    /\ proc' = [proc EXCEPT ![p] = [@ EXCEPT !.skipped = @ + 1, !.i = @ + 1]]
    /\ UNCHANGED <<store, trading_log, clock, runs, prev, started_empty, bk>>

(* update_page answered 2xx: the store replaces the properties sent *)
UpdateOk(p) ==
    /\ InLoop(p)
    /\ ~Skippable(Ticker(proc[p]), Price(proc[p]))
    /\ Ticker(proc[p]) \in DOMAIN proc[p].existing_map
    /\ LET r == proc[p]
           page_id == r.existing_map[Ticker(r)]
       IN  /\ store' = [store EXCEPT ![page_id].properties = Props(r) @@ @]
           /\ proc' = [proc EXCEPT ![p] =
                 [@ EXCEPT !.updated = @ + 1, !.i = @ + 1,
                           !.writes = Append(@, WriteCall(r, "update", page_id, TRUE)),
                           !.base = store']]
    /\ UNCHANGED <<trading_log, clock, runs, prev, started_empty, bk>>

(* Variant with the race closed: the create looks the ticker up in the store
   at write time and updates the row it finds. *)
CreateUnlessPresent(p) ==
    /\ InLoop(p)
    /\ ~Skippable(Ticker(proc[p]), Price(proc[p]))
    /\ Ticker(proc[p]) \notin DOMAIN proc[p].existing_map
    /\ LET r == proc[p]
           page_id == Len(store) + 1
           now_map == ExistingMap(HistoryFilter(store, r.time_key))
           there == Ticker(r) \in DOMAIN now_map
       IN  /\ store' = IF there
                       THEN [store EXCEPT ![now_map[Ticker(r)]].properties = Props(r) @@ @]
                       ELSE Append(store, [id |-> page_id, properties |-> Props(r)])
           /\ proc' = [proc EXCEPT ![p] =
                 [@ EXCEPT !.created = @ + 1, !.i = @ + 1,
                           !.writes = Append(@, WriteCall(r, "create", page_id, TRUE)),
                           !.base = store']]
    /\ UNCHANGED <<trading_log, clock, runs, prev, started_empty, bk>>

(* create_page answered 2xx: the store appends a page with a fresh id *)
CreateOk(p) ==
    /\ InLoop(p)
    /\ ~Skippable(Ticker(proc[p]), Price(proc[p]))
    /\ Ticker(proc[p]) \notin DOMAIN proc[p].existing_map
    /\ LET r == proc[p]
           page_id == Len(store) + 1
       IN  /\ store' = Append(store, [id |-> page_id, properties |-> Props(r)])
           /\ proc' = [proc EXCEPT ![p] =
                 [@ EXCEPT !.created = @ + 1, !.i = @ + 1,
                           !.writes = Append(@, WriteCall(r, "create", page_id, TRUE)),
                           !.base = store']]
    /\ UNCHANGED <<trading_log, clock, runs, prev, started_empty, bk>>

(* Faulty variant: a write answered with an error status is swallowed and the
   loop goes on. *)
WriteFailContinue(p) ==
    /\ InLoop(p)
    /\ ~Skippable(Ticker(proc[p]), Price(proc[p]))
    /\ LET r == proc[p]
           hit == Ticker(r) \in DOMAIN r.existing_map
           call == IF hit THEN WriteCall(r, "update", r.existing_map[Ticker(r)], FALSE)
                   ELSE WriteCall(r, "create", 0, FALSE)
       IN  proc' = [proc EXCEPT ![p] =
                 [@ EXCEPT !.i = @ + 1, !.writes = Append(@, call)]]
    /\ UNCHANGED <<store, trading_log, clock, runs, prev, started_empty, bk>>

(* notion_post / notion_patch: not r.ok raises, and nothing catches it *)
WriteFail(p) ==
    /\ InLoop(p)
    /\ ~Skippable(Ticker(proc[p]), Price(proc[p]))
    /\ LET r == proc[p]
           hit == Ticker(r) \in DOMAIN r.existing_map
           call == IF hit THEN WriteCall(r, "update", r.existing_map[Ticker(r)], FALSE)
                   ELSE WriteCall(r, "create", 0, FALSE)
       IN  proc' = [proc EXCEPT ![p] =
                 [@ EXCEPT !.pc = "failed", !.writes = Append(@, call)]]
    /\ UNCHANGED <<store, trading_log, clock, runs, prev, started_empty, bk>>

(* the loop is over: print the summary *)
Finish(p) ==
    /\ proc[p].pc = "loop"
    /\ proc[p].i > Len(proc[p].trades)
    /\ proc' = [proc EXCEPT ![p] =
          [@ EXCEPT !.pc = "done",
                    !.out = Append(@, <<"done", proc[p].created, proc[p].updated,
                                        proc[p].skipped>>)]]
    /\ UNCHANGED <<store, trading_log, clock, runs, prev, started_empty, bk>>

(* between two runs the first open trade is closed by hand: it leaves the list *)
CloseTrade ==
    /\ \A p \in Procs : proc[p].pc \in {"idle", "done", "failed"}
    /\ runs < MaxRuns
    /\ trading_log # <<>>
    /\ trading_log' = Tail(trading_log)
    /\ UNCHANGED <<store, clock, runs, proc, prev, started_empty, bk>>

Run(p) ==
    \/ Start(p)
    \/ QueryPage(p)
    \/ PrimaryFail(p)
    \/ QueryAbort(p)
    \/ Skip(p)
    \/ UpdateOk(p)
    \/ CreateOk(p)
    \/ WriteFail(p)
    \/ Finish(p)

(* runs of main() that never overlap: one process, started again after it ends *)
Next == Run(1) \/ CloseTrade

Spec == Init /\ [][Next]_vars

---------------------------------------------------------------------------
(* Runs of main() that overlap: two processes against the same History database *)

(* each process runs main() once *)
StartOnce(p) == proc[p].pc = "idle" /\ Start(p)

NextConc ==
    \E p \in Procs :
        \/ StartOnce(p)
        \/ QueryPage(p)
        \/ Skip(p)
        \/ UpdateOk(p)
        \/ CreateOk(p)
        \/ Finish(p)

SpecConc == Init /\ [][NextConc]_vars

---------------------------------------------------------------------------
(* The Bucketer alone: floor_to_bucket and strftime on enumerated inputs *)

SubMinute == { <<0, 0>>, <<12, 0>>, <<59, 999999>> }

BucketTimes ==
    { DateTime(1, h, mi, sm[1], sm[2]) : h \in {9, 10}, mi \in 0..59, sm \in SubMinute }

BucketSizes == (1..MaxBucketMinutes) \cup {15, 20, 30, 60, 90}

InitBucket ==
    /\ store = <<>>
    /\ started_empty = TRUE
    /\ trading_log = <<>>
    /\ clock = DateTime(1, 9, 47, 12, 0)
    /\ runs = 0
    /\ proc = [p \in Procs |-> IdleProc]
    /\ prev = [pc |-> "idle", trades |-> <<>>, time_key |-> <<>>, rows |-> 0]
    /\ \E t \in BucketTimes, m \in BucketSizes :
          bk = [pc |-> "start", t |-> t, m |-> m, b |-> t, key |-> <<>>,
                t2 |-> t, b2 |-> t, key2 |-> <<>>]

(* main(), lines 145-147, at wall-clock time bk.t *)
FloorFirst ==
    /\ bk.pc = "start"
    /\ LET b == floor_to_bucket(bk.t, bk.m)
       IN  bk' = [bk EXCEPT !.pc = "first", !.b = b, !.key = strftime(b)]
    /\ UNCHANGED <<store, trading_log, clock, runs, proc, prev, started_empty>>

(* the same lines at another wall-clock time t2 of the window [b, b + m minutes) *)
FloorSecond ==
    /\ bk.pc = "first"
    /\ \E t2 \in BucketTimes :
          /\ InWindow(t2, bk.b, bk.m)
          /\ LET b2 == floor_to_bucket(t2, bk.m)
             IN  bk' = [bk EXCEPT !.pc = "second", !.t2 = t2, !.b2 = b2,
                                  !.key2 = strftime(b2)]
    /\ UNCHANGED <<store, trading_log, clock, runs, proc, prev, started_empty>>

NextBucket == FloorFirst \/ FloorSecond

SpecBucket == InitBucket /\ [][NextBucket]_vars

---------------------------------------------------------------------------
(* Vocabulary of the properties *)

KeyOf(row) == get_rich_text(row, "HourKey")

TickerOf(page) == Normalize(get_title(page, "Ticker"))

HasPrice(page) == get_number(page, "Close") # None

Writable(page) == TickerOf(page) # <<>> /\ HasPrice(page)

RowsOf(key, ticker) ==
    { k \in 1..Len(store) : KeyOf(store[k]) = key /\ TickerOf(store[k]) = ticker }

Printed(r, tag) == \E k \in 1..Len(r.out) : r.out[k][1] = tag

RECURSIVE ConcatPages(_)
ConcatPages(log) ==
    IF log = <<>> THEN <<>> ELSE Head(log).data.results \o ConcatPages(Tail(log))

Drained(log) == log # <<>> /\ ~log[Len(log)].data.has_more

(* the call of query_open_trades whose result main() uses *)
TradesCall(r) == IF r.attempts["fallback"] = 0 THEN "primary" ELSE "fallback"

---------------------------------------------------------------------------
(* C1: after any sequence of non-overlapping runs against a History database
   that started empty, no two rows share a (bucketKey, normalized ticker)
   pair, whatever list of open trades the source returned. *)
C1_OneRowPerBucketTicker ==
    started_empty =>
        \A a, b \in 1..Len(store) :
            a # b => ~(KeyOf(store[a]) = KeyOf(store[b])
                        /\ TickerOf(store[a]) = TickerOf(store[b]))

---------------------------------------------------------------------------
(* C2: a run that follows a completed run with the same list of open trades
   and the same bucketKey, every write succeeding, reports created = 0 and
   updated = N, N the number of trades with a non-empty ticker and a price,
   and leaves the number of history rows as the first run left it. *)
C2_SecondRunUpdatesOnly ==
    \A p \in Procs :
        LET r == proc[p]
            N == Cardinality({ k \in 1..Len(r.trades) : Writable(r.trades[k]) })
        IN  (/\ r.pc = "done"
             /\ prev.pc = "done"
             /\ prev.trades = r.trades
             /\ prev.time_key = r.time_key)
            => /\ r.created = 0
               /\ r.updated = N
               /\ r.out[Len(r.out)] = <<"done", 0, N, Len(r.trades) - N>>
               /\ Len(store) = prev.rows

C2_Witness ==
    /\ proc[1].pc = "done"
    /\ prev.pc = "done"
    /\ prev.trades = proc[1].trades
    /\ prev.time_key = proc[1].time_key
    /\ proc[1].updated = 2
    /\ Len(store) = 2
    /\ started_empty

---------------------------------------------------------------------------
(* C3: in query_open_trades, an error of the primary query at any page makes
   the fallback query be attempted exactly once and its result alone be
   returned; a primary query that succeeds is never followed by the fallback;
   when both fail the run ends with no create or update issued. *)
C3_FallbackOnce ==
    \A p \in Procs :
        LET r == proc[p]
        IN  /\ r.pc # "idle" => r.attempts["primary"] = 1
            /\ r.pc = "primary" => r.attempts["fallback"] = 0
            /\ r.pc \notin {"idle", "primary"} =>
                  IF Drained(r.reqs["primary"])
                  THEN /\ r.attempts["fallback"] = 0
                       /\ r.reqs["fallback"] = <<>>
                       /\ r.trades = ConcatPages(r.reqs["primary"])
                  ELSE /\ r.attempts["fallback"] = 1
                       /\ r.pc # "fallback" =>
                            IF Drained(r.reqs["fallback"])
                            THEN r.trades = ConcatPages(r.reqs["fallback"])
                            ELSE /\ r.pc = "failed"
                                 /\ r.attempts["history"] = 0
                                 /\ r.writes = <<>>
                                 /\ store = r.base
                                 /\ ~Printed(r, "done")

C3_Witness ==
    /\ proc[1].pc = "loop"
    /\ Len(proc[1].reqs["primary"]) = 1
    /\ ~Drained(proc[1].reqs["primary"])
    /\ Len(proc[1].reqs["fallback"]) = 2
    /\ Len(proc[1].trades) = 2

---------------------------------------------------------------------------
(* C4: a create or update that is answered with an error status ends the run
   there: it is the last write call of the run, the summary is not printed,
   and the History database stays as the earlier writes of the run left it. *)
C4_WriteFailureStops ==
    \A p \in Procs :
        LET r == proc[p]
        IN  \A k \in 1..Len(r.writes) :
                ~r.writes[k].ok =>
                    /\ r.pc = "failed"
                    /\ k = Len(r.writes)
                    /\ r.writes[k].trade = r.i
                    /\ ~Printed(r, "done")
                    /\ store = r.base

C4_Witness ==
    /\ proc[1].pc = "failed"
    /\ Len(proc[1].writes) = 2
    /\ proc[1].writes[1].ok
    /\ ~proc[1].writes[2].ok
    /\ Len(store) = 1

---------------------------------------------------------------------------
(* C5: at the end of a run whose writes all succeeded, created + updated +
   skipped is the number of open trades read, the number of write calls is
   created + updated, and every trade with an empty normalized ticker or no
   price is counted in skipped and has no write call. *)
C5_CountsAddUp ==
    \A p \in Procs :
        LET r == proc[p]
            bad == { k \in 1..Len(r.trades) : ~Writable(r.trades[k]) }
        IN  r.pc = "done" =>
                /\ r.created + r.updated + r.skipped = Len(r.trades)
                /\ Len(r.writes) = r.created + r.updated
                /\ r.skipped >= Cardinality(bad)
                /\ \A k \in bad : \A w \in 1..Len(r.writes) : r.writes[w].trade # k
                /\ r.out[Len(r.out)] = <<"done", r.created, r.updated, r.skipped>>

C5_Witness ==
    /\ proc[1].pc = "done"
    /\ proc[1].skipped = 1
    /\ proc[1].created = 1
    /\ get_number(proc[1].trades[1], "Close") = None
    /\ TickerOf(proc[1].trades[1]) # <<>>

---------------------------------------------------------------------------
(* C6: db_query_all requests each page once and in order, the first request
   without a cursor and each later one with the next_cursor of the page
   before it, and returns the pages' results concatenated in page order;
   main() issues no create or update before the open-trades query and the
   existing-history query have both reached their last page. *)
PagesInOrder(log) ==
    \A k \in 1..Len(log) :
        /\ k = 1 => "start_cursor" \notin DOMAIN log[k].body
        /\ k > 1 => /\ log[k - 1].data.has_more
                    /\ "start_cursor" \in DOMAIN log[k].body
                    /\ log[k].body.start_cursor = log[k - 1].data.next_cursor
        /\ \A j \in 1..Len(log) : j # k => log[j].body # log[k].body

C6_PagesDrainedBeforeWrites ==
    \A p \in Procs :
        LET r == proc[p]
        IN  /\ \A c \in Calls : PagesInOrder(r.reqs[c])
            /\ (r.pc \in {"loop", "done"} \/ r.writes # <<>>) =>
                  /\ Drained(r.reqs[TradesCall(r)])
                  /\ Drained(r.reqs["history"])
                  /\ r.trades = ConcatPages(r.reqs[TradesCall(r)])
                  /\ r.pc = "loop" => r.trades = trading_log
                  /\ r.existing_rows = ConcatPages(r.reqs["history"])
                  /\ \/ Len(r.reqs[TradesCall(r)]) = 1
                     \/ (Len(r.reqs[TradesCall(r)]) - 1) * PageSize < Len(r.trades)
            /\ (r.pc = "loop" /\ r.writes = <<>>) =>
                  r.existing_rows = HistoryFilter(store, r.time_key)

C6_Witness ==
    /\ proc[1].pc = "done"
    /\ Len(proc[1].reqs["history"]) = 3
    /\ Len(proc[1].reqs["primary"]) = 2
    /\ Len(proc[1].existing_rows) = 3
    /\ Len(proc[1].writes) = 2

---------------------------------------------------------------------------
(* C7, as stated: whenever the ticker of a trade the loop has processed (one
   it does not skip) and an existing history row's ticker are equal after
   trimming and upper-casing, the loop issues an update against that row and
   no create for the trade. *)
C7_UpdateEveryMatchingRow ==
    \A p \in Procs :
        LET r == proc[p]
        IN  r.pc \in {"loop", "done"} =>
              \A k \in 1..Len(r.trades), e \in 1..Len(r.existing_rows) :
                  (/\ k < r.i
                   /\ Writable(r.trades[k])
                   /\ TickerOf(r.existing_rows[e]) = TickerOf(r.trades[k])) =>
                      /\ \E w \in 1..Len(r.writes) :
                            /\ r.writes[w].trade = k
                            /\ r.writes[w].op = "update"
                            /\ r.writes[w].target = r.existing_rows[e].id
                      /\ \A w \in 1..Len(r.writes) :
                            r.writes[w].trade = k => r.writes[w].op # "create"

(* C7, amended: for every trade the loop does not skip, matching is on the
   trimmed, upper-cased ticker: if pre-read rows of the bucket have an equal
   normalized ticker the loop issues one update, against the last of them in
   pre-read order, and no create; it issues a create only when no pre-read
   row of the bucket has an equal normalized ticker. *)
C7_UpdateLastMatchingRow ==
    \A p \in Procs :
        LET r == proc[p]
            matches(k) == { e \in 1..Len(r.existing_rows) :
                              TickerOf(r.existing_rows[e]) = TickerOf(r.trades[k]) }
            last(k) == CHOOSE e \in matches(k) : \A f \in matches(k) : f <= e
            calls(k) == { w \in 1..Len(r.writes) : r.writes[w].trade = k }
        IN  /\ \A e \in 1..Len(r.existing_rows) : KeyOf(r.existing_rows[e]) = r.time_key
            /\ \A k \in 1..Len(r.trades) :
                  /\ (Writable(r.trades[k]) /\ r.pc \in {"loop", "done"} /\ k < r.i)
                        => Cardinality(calls(k)) = 1
                  /\ \A w \in calls(k) :
                        IF matches(k) # {}
                        THEN /\ r.writes[w].op = "update"
                             /\ r.writes[w].target = r.existing_rows[last(k)].id
                        ELSE r.writes[w].op = "create"

C7_Witness ==
    \E w \in 1..Len(proc[1].writes), e \in 1..Len(proc[1].existing_rows) :
        LET r == proc[1]
            trade == r.trades[r.writes[w].trade]
        IN  /\ r.writes[w].op = "update"
            /\ r.writes[w].ok
            /\ r.writes[w].target = r.existing_rows[e].id
            /\ get_title(trade, "Ticker") = <<" ", "a", " ">>
            /\ get_title(r.existing_rows[e], "Ticker") = <<"A">>

---------------------------------------------------------------------------
(* C8, as stated: for every bucket size m >= 1 and wall-clock time t,
   floor_to_bucket(t, m) is a time b with seconds and microseconds zero and
   b <= t < b + m minutes, and every time of [b, b + m minutes) has the same
   bucket time and bucketKey; m = 10, t = 09:47:12 give 09:40:00 and a key
   that ends in "09:40". *)
BucketOfT ==
    /\ bk.b.second = 0
    /\ bk.b.microsecond = 0
    /\ InWindow(bk.t, bk.b, bk.m)
    /\ (bk.m = 10 /\ bk.t = DateTime(1, 9, 47, 12, 0)) =>
          /\ bk.b = DateTime(1, 9, 40, 0, 0)
          /\ SubSeq(bk.key, Len(bk.key) - 4, Len(bk.key)) = <<"0", "9", ":", "4", "0">>

SameBucketInWindow == bk.b2 = bk.b /\ bk.key2 = bk.key

C8_WindowSharesBucket ==
    /\ bk.pc \in {"first", "second"} => BucketOfT
    /\ bk.pc = "second" => SameBucketInWindow

(* C8, amended: for every bucket size m >= 1 and wall-clock time t, b has
   seconds and microseconds zero and b <= t < b + m minutes; for every m that
   divides 60, every time of [b, b + m minutes) has the same bucket time and
   bucketKey; m = 10, t = 09:47:12 give 09:40:00 and a key ending "09:40". *)
C8_WindowSharesBucketIfDivides60 ==
    /\ bk.pc \in {"first", "second"} => BucketOfT
    /\ (bk.pc = "second" /\ 60 % bk.m = 0) => SameBucketInWindow

C8_Witness ==
    /\ bk.pc = "second"
    /\ bk.m = 10
    /\ bk.t = DateTime(1, 9, 47, 12, 0)
    /\ bk.t2 = DateTime(1, 9, 49, 59, 999999)

---------------------------------------------------------------------------
(* C9: two runs of main() that overlap on one bucketKey, each with a trade
   whose ticker its pre-read did not find, both issue a create for that
   ticker and both complete; the History database then holds two rows or
   more for that (bucketKey, ticker). *)
C9_OverlappingRunsDuplicate ==
    \A p, q \in Procs :
        \A a \in 1..Len(proc[p].writes), b \in 1..Len(proc[q].writes) :
            LET wa == proc[p].writes[a]
                wb == proc[q].writes[b]
            IN  (/\ p # q
                 /\ proc[p].time_key = proc[q].time_key
                 /\ wa.ok /\ wb.ok
                 /\ wa.op = "create" /\ wb.op = "create"
                 /\ wa.ticker = wb.ticker)
                => Cardinality(RowsOf(proc[p].time_key, wa.ticker)) >= 2

C9_Witness ==
    /\ started_empty
    /\ Len(trading_log) = 1
    /\ proc[1].pc = "done" /\ proc[2].pc = "done"
    /\ proc[1].time_key = proc[2].time_key
    /\ proc[1].created = 1 /\ proc[2].created = 1
    /\ Len(store) = 2
    /\ KeyOf(store[1]) = KeyOf(store[2])
    /\ TickerOf(store[1]) = TickerOf(store[2])

---------------------------------------------------------------------------
(* C10: a run never deletes a history row and changes rows of its own bucket
   only: every update targets a row its pre-read returned for the current
   bucketKey, every row it creates or updates carries that bucketKey, and a
   row with another bucketKey is left as it was. *)
RunFrame(p) ==
    LET r == proc[p]
    IN  /\ Len(store') >= Len(store)
        /\ \A k \in 1..Len(store) :
              /\ store'[k].id = store[k].id
              /\ KeyOf(store[k]) # r.time_key => store'[k] = store[k]
        /\ \A k \in 1..Len(store') :
              (k > Len(store) \/ store'[k] # store[k]) => KeyOf(store'[k]) = r.time_key
        /\ \A w \in 1..Len(r.writes) :
              r.writes[w].op = "update" =>
                  \E e \in 1..Len(r.existing_rows) :
                      /\ r.existing_rows[e].id = r.writes[w].target
                      /\ KeyOf(r.existing_rows[e]) = r.time_key
                      /\ KeyOf(store[r.writes[w].target]) = r.time_key

C10_OwnBucketOnly == [][RunFrame(1)]_vars

C10_Witness ==
    /\ proc[1].pc = "done"
    /\ proc[1].updated = 1
    /\ proc[1].created = 1
    /\ \E k \in 1..Len(store) : KeyOf(store[k]) # proc[1].time_key

===========================================================================
